---- MODULE Spec2Model ----
(***************************************************************************)
(* RcloneSyncer.sync_logic (src/utils/rclone.py): the trigger tracker that *)
(* scans rclone output for configured phrases, counts occurrences inside a *)
(* window and tells the caller to abort and sleep.                         *)
(*                                                                         *)
(* Strings are sequences of one-character strings.  A dict is a function   *)
(* whose DOMAIN is its key set; rclone_sleeps, whose iteration order       *)
(* matters, is the sequence of its items in that order.  The value '' of   *)
(* 'expires' and the value None of delayed_trigger are the empty sequence, *)
(* a set value v is <<v>>.  time.time() is an integer clock whose unit is   *)
(* longer than one sync_logic call takes: every time.time() inside a call  *)
(* is a separate read, and the clock ticks at most once while a call runs. *)
(***************************************************************************)
EXTENDS Integers, Sequences, FiniteSets, TLC

VARIABLES
    rclone_sleeps,    \* self.rclone_sleeps, items in iteration order
    trigger_tracks,   \* self.trigger_tracks
    delayed_check,    \* self.delayed_check
    delayed_trigger,  \* self.delayed_trigger
    now,              \* the clock time.time() reads
    last,             \* history: the most recent sync_logic call
    fired_at,         \* history: per trigger, when it last returned True
    solo_all,         \* per trigger, a syncer configured with it alone and
                      \* given every call
    solo_ran,         \* the same, given the calls whose loop ran the trigger
    matching,         \* one evaluation of the test of line 129
    merging           \* one construction: the two remotes and the result

vars == <<rclone_sleeps, trigger_tracks, delayed_check, delayed_trigger,
          now, last, fired_at, solo_all, solo_ran, matching, merging>>

----------------------------------------------------------------------------
(* Bounds *)

\* the clock stops at MaxTime
MaxTime == 2
\* no call is made once a tracked count has reached MaxTrack
MaxTrack == 3
\* the longest phrase and the longest text the match test is tried on
MaxPhrase == 2
MaxText == 3

----------------------------------------------------------------------------
(* Values *)

Unset == <<>>
None == <<>>
Some(v) == <<v>>

\* the two trigger phrases of the configurations explored
PhraseA == <<"A", "b">>
PhraseB == <<"b", "a">>

\* rclone output chunks handed to sync_logic
Texts ==
    { <<"a", "x", "b">>,
      <<"x", "A", "B", "x">>,
      <<"b", "a">>,
      <<"x", "a", "B", "A">> }

\* per-trigger settings {count, timeout, sleep}; __init__ accepts any
TriggerConfigs ==
    { [count |-> 0, timeout |-> 0, sleep |-> 1],
      [count |-> 1, timeout |-> 2, sleep |-> 2],
      [count |-> 2, timeout |-> 2, sleep |-> 1],
      [count |-> 3, timeout |-> 1, sleep |-> 3] }

Item(text, config) == [text |-> text, config |-> config]

----------------------------------------------------------------------------
(* str.lower() and the 'in' test on strings *)

LowerChar(c) ==
    CASE c = "A" -> "a"
      [] c = "B" -> "b"
      [] OTHER -> c

Lower(s) == [i \in 1..Len(s) |-> LowerChar(s[i])]

\* needle in hay
In(needle, hay) ==
    \E i \in 0..(Len(hay) - Len(needle)) :
        SubSeq(hay, i + 1, i + Len(needle)) = needle

TextInData_DataLoweredOnly(trigger_text, data) ==
    In(trigger_text, Lower(data))

\* line 129: trigger_text.lower() in data.lower()
TextInData(trigger_text, data) == In(Lower(trigger_text), Lower(data))

----------------------------------------------------------------------------
(* dict helpers *)

Put(d, k, v) == [x \in (DOMAIN d) \cup {k} |-> IF x = k THEN v ELSE d[x]]

----------------------------------------------------------------------------
(* sync_logic, statement by statement *)

Expired_Strict(tracks, trigger_text, t) ==
    /\ trigger_text \in DOMAIN tracks
    /\ tracks[trigger_text].expires # Unset
    /\ t > tracks[trigger_text].expires[1]

\* lines 122-123: the entry exists, its 'expires' is set and t has reached it
Expired(tracks, trigger_text, t) ==
    /\ trigger_text \in DOMAIN tracks
    /\ tracks[trigger_text].expires # Unset
    /\ t >= tracks[trigger_text].expires[1]

ResetTrack_KeepExpires(tracks, trigger_text) ==
    [tracks EXCEPT ![trigger_text].count = 0]

ResetTrack_KeepCount(tracks, trigger_text) ==
    [tracks EXCEPT ![trigger_text].expires = Unset]

ResetTrack_All(tracks, trigger_text) ==
    [x \in DOMAIN tracks |-> [count |-> 0, expires |-> Unset]]

\* line 126
ResetTrack(tracks, trigger_text) ==
    Put(tracks, trigger_text, [count |-> 0, expires |-> Unset])

\* lines 122-126: check/reset trigger timeout
CheckTimeout(tracks, trigger_text, t) ==
    IF Expired(tracks, trigger_text, t)
    THEN ResetTrack(tracks, trigger_text)
    ELSE tracks

\* line 131
NotTracked(tracks, trigger_text) ==
    \/ trigger_text \notin DOMAIN tracks
    \/ tracks[trigger_text].count = 0

InitialTrack_NoTimeout(tracks, trigger_text, trigger_config, t) ==
    Put(tracks, trigger_text, [count |-> 1, expires |-> Some(t)])

\* line 133: set initial tracking info for trigger
InitialTrack(tracks, trigger_text, trigger_config, t) ==
    Put(tracks, trigger_text,
        [count |-> 1, expires |-> Some(t + trigger_config.timeout)])

IncreaseCount_Extend(tracks, trigger_text) ==
    [tracks EXCEPT ![trigger_text].count = @ + 1,
                   ![trigger_text].expires = Some(@[1] + 1)]

\* line 141
IncreaseCount(tracks, trigger_text) ==
    [tracks EXCEPT ![trigger_text].count = @ + 1]

ReachedLimit_Exact(tracks, trigger_text, trigger_config) ==
    tracks[trigger_text].count = trigger_config.count

ReachedLimit_OffByOne(tracks, trigger_text, trigger_config) ==
    tracks[trigger_text].count + 1 >= trigger_config.count

\* line 147
ReachedLimit(tracks, trigger_text, trigger_config) ==
    tracks[trigger_text].count >= trigger_config.count

AbortCheck_Stale(self, trigger_text, trigger_config) == self.delayed_check

\* lines 151-152
AbortCheck(self, trigger_text, trigger_config) == trigger_config.sleep
AbortTrigger(self, trigger_text, trigger_config) == Some(trigger_text)

\* the clock reads of one call: reads[2i-1] is time.time() of line 123 and
\* reads[2i] that of line 133 in the i-th iteration of the loop
TimeAt123(reads, i) == reads[2 * i - 1]
TimeAt133(reads, i) == reads[2 * i]

\* lines 120-154 from the i-th item on.  self is the instance's state
\* [trigger_tracks, delayed_check, delayed_trigger]; the result adds ret, the
\* value returned, and at, the iteration that returned True (0: none did).
RECURSIVE Loop(_, _, _, _, _)
Loop(sleeps, self, data, reads, i) ==
    IF i > Len(sleeps)
    THEN [self |-> self, ret |-> FALSE, at |-> 0]
    ELSE
      LET trigger_text == sleeps[i].text
          trigger_config == sleeps[i].config
          checked == CheckTimeout(self.trigger_tracks, trigger_text,
                                  TimeAt123(reads, i))
      IN
        IF TextInData(trigger_text, data)
        THEN
          IF NotTracked(checked, trigger_text)
          THEN Loop(sleeps,
                    [self EXCEPT !.trigger_tracks =
                        InitialTrack(checked, trigger_text, trigger_config,
                                     TimeAt133(reads, i))],
                    data, reads, i + 1)
          ELSE
            LET counted == IncreaseCount(checked, trigger_text) IN
              IF ReachedLimit(counted, trigger_text, trigger_config)
              THEN [self |-> [trigger_tracks |-> counted,
                              delayed_check |->
                                  AbortCheck(self, trigger_text, trigger_config),
                              delayed_trigger |->
                                  AbortTrigger(self, trigger_text, trigger_config)],
                    ret |-> TRUE, at |-> i]
              ELSE Loop(sleeps, [self EXCEPT !.trigger_tracks = counted],
                        data, reads, i + 1)
        ELSE Loop(sleeps, [self EXCEPT !.trigger_tracks = checked],
                  data, reads, i + 1)

RECURSIVE Sweep(_, _, _, _)
Sweep(sleeps, tracks, reads, i) ==
    IF i > Len(sleeps)
    THEN tracks
    ELSE Sweep(sleeps,
               CheckTimeout(tracks, sleeps[i].text, TimeAt123(reads, i)),
               reads, i + 1)

sync_logic_SweepFirst(sleeps, self, data, reads) ==
    Loop(sleeps,
         [self EXCEPT !.trigger_tracks = Sweep(sleeps, @, reads, 1)],
         data, reads, 1)

sync_logic_ClearAbort(sleeps, self, data, reads) ==
    Loop(sleeps,
         [self EXCEPT !.delayed_check = 0, !.delayed_trigger = None],
         data, reads, 1)

\* lines 118-154
sync_logic(sleeps, self, data, reads) == Loop(sleeps, self, data, reads, 1)

----------------------------------------------------------------------------
(* The state machine *)

Min(a, b) == IF a <= b THEN a ELSE b

\* the clock reads a call entered at t0 can make in n iterations: the first
\* read is the time of entry, the later ones never go back
ClockReads(t0, n) ==
    { r \in [1..(2 * n) -> t0..Min(t0 + 1, MaxTime)] :
        /\ r[1] = t0
        /\ \A j \in 1..(2 * n - 1) : r[j] <= r[j + 1] }

Keys(sleeps) == { sleeps[i].text : i \in 1..Len(sleeps) }

\* the iteration of trigger_text in sleeps
Index(sleeps, trigger_text) ==
    CHOOSE i \in 1..Len(sleeps) : sleeps[i].text = trigger_text

NoCall == [pre |-> <<>>, pre_fired |-> <<>>, hit |-> {}, reads |-> <<>>,
           ret |-> FALSE, at |-> 0]

\* lines 102-104: the tracking state __init__ leaves
NewSelf == [trigger_tracks |-> <<>>, delayed_check |-> 0,
            delayed_trigger |-> None]

NewSolo == [self |-> NewSelf, ret |-> FALSE]

\* lines 96-104: the state __init__ leaves
Init ==
    /\ rclone_sleeps \in
          { <<Item(PhraseA, a), Item(PhraseB, b)>> :
                a \in TriggerConfigs, b \in TriggerConfigs }
    /\ trigger_tracks = NewSelf.trigger_tracks
    /\ delayed_check = NewSelf.delayed_check
    /\ delayed_trigger = NewSelf.delayed_trigger
    /\ now = 0
    /\ last = NoCall
    /\ fired_at = [k \in Keys(rclone_sleeps) |-> None]
    /\ solo_all = [k \in Keys(rclone_sleeps) |-> NewSolo]
    /\ solo_ran = [k \in Keys(rclone_sleeps) |-> NewSolo]
    /\ matching = <<>>
    /\ merging = <<>>

\* time passes between two calls
Tick ==
    /\ now < MaxTime
    /\ now' = now + 1
    /\ UNCHANGED <<rclone_sleeps, trigger_tracks, delayed_check,
                   delayed_trigger, last, fired_at, solo_all, solo_ran,
                   matching, merging>>

\* whether a call that returned at iteration at ran iteration i
Ran(at, i) == at = 0 \/ i <= at

\* the call sync_logic(data) making the clock reads reads
Call(data, reads) ==
    LET self == [trigger_tracks |-> trigger_tracks,
                 delayed_check |-> delayed_check,
                 delayed_trigger |-> delayed_trigger]
        r == sync_logic(rclone_sleeps, self, data, reads)
    IN
      /\ trigger_tracks' = r.self.trigger_tracks
      /\ delayed_check' = r.self.delayed_check
      /\ delayed_trigger' = r.self.delayed_trigger
      /\ now' = reads[Len(reads)]
      /\ last' = [pre |-> trigger_tracks,
                  pre_fired |-> fired_at,
                  hit |-> { k \in Keys(rclone_sleeps) : TextInData(k, data) },
                  reads |-> reads,
                  ret |-> r.ret,
                  at |-> r.at]
      /\ fired_at' =
           [k \in Keys(rclone_sleeps) |->
               LET i == Index(rclone_sleeps, k) IN
                 IF r.at = i THEN Some(TimeAt123(reads, i))
                 ELSE IF Ran(r.at, i) /\ TextInData(k, data) THEN None
                 ELSE fired_at[k]]
      /\ UNCHANGED <<rclone_sleeps, matching, merging>>

\* one call sync_logic(data)
SyncLogic ==
    /\ \A k \in DOMAIN trigger_tracks : trigger_tracks[k].count < MaxTrack
    /\ \E data \in Texts, reads \in ClockReads(now, Len(rclone_sleeps)) :
         Call(data, reads)
    /\ UNCHANGED <<solo_all, solo_ran>>

Next == Tick \/ SyncLogic

Spec == Init /\ [][Next]_vars

----------------------------------------------------------------------------
(* The syncer beside syncers that are configured with one trigger each *)

\* the call sync_logic(data) of the syncer solo, whose rclone_sleeps holds
\* the i-th item alone, making the clock reads of the i-th iteration
SoloCall(solo, i, data, reads) ==
    LET r == sync_logic(<<rclone_sleeps[i]>>, solo.self, data,
                        <<TimeAt123(reads, i), TimeAt133(reads, i)>>)
    IN [self |-> r.self, ret |-> r.ret]

SyncLogicPair ==
    /\ \A k \in DOMAIN trigger_tracks : trigger_tracks[k].count < MaxTrack
    /\ \A k \in DOMAIN solo_all :
          \A x \in DOMAIN solo_all[k].self.trigger_tracks :
              solo_all[k].self.trigger_tracks[x].count < MaxTrack
    /\ \E data \in Texts, reads \in ClockReads(now, Len(rclone_sleeps)) :
         /\ Call(data, reads)
         /\ solo_all' =
              [k \in Keys(rclone_sleeps) |->
                  SoloCall(solo_all[k], Index(rclone_sleeps, k), data, reads)]
         /\ solo_ran' =
              [k \in Keys(rclone_sleeps) |->
                  IF Ran(last'.at, Index(rclone_sleeps, k))
                  THEN SoloCall(solo_ran[k], Index(rclone_sleeps, k), data, reads)
                  ELSE [solo_ran[k] EXCEPT !.ret = FALSE]]

NextPair == Tick \/ SyncLogicPair

SpecPair == Init /\ [][NextPair]_vars

----------------------------------------------------------------------------
(* The match test of line 129 on its own *)

Alphabet == {"a", "A", "b", "x"}

\* the strings over Alphabet of length at most n
Strings(n) == UNION { [1..k -> Alphabet] : k \in 0..n }

\* a syncer that is not looked at
Idle ==
    /\ rclone_sleeps = <<>>
    /\ trigger_tracks = NewSelf.trigger_tracks
    /\ delayed_check = NewSelf.delayed_check
    /\ delayed_trigger = NewSelf.delayed_trigger
    /\ now = 0
    /\ last = NoCall
    /\ fired_at = <<>>
    /\ solo_all = <<>>
    /\ solo_ran = <<>>

InitMatch ==
    /\ Idle
    /\ matching \in
          { [trigger_text |-> p, data |-> d, found |-> None] :
                p \in Strings(MaxPhrase), d \in Strings(MaxText) }
    /\ merging = <<>>

\* line 129 for one trigger_text and one data
Match ==
    /\ matching.found = None
    /\ matching' =
          [matching EXCEPT
              !.found = Some(TextInData(matching.trigger_text, matching.data))]
    /\ UNCHANGED <<rclone_sleeps, trigger_tracks, delayed_check,
                   delayed_trigger, now, last, fired_at, solo_all, solo_ran,
                   merging>>

NextMatch == Match

SpecMatch == InitMatch /\ [][NextMatch]_vars

----------------------------------------------------------------------------
(* The construction of line 101 on its own *)

\* dict.update: the entries of e, and those of d under the other keys
Update(d, e) ==
    [k \in (DOMAIN d) \cup (DOMAIN e) |-> IF k \in DOMAIN e THEN e[k] ELSE d[k]]

\* misc.merge_dicts(a, b): a later dict overrides an earlier one on a key
\* both hold
merge_dicts(a, b) == Update(Update(<<>>, a), b)

NewSyncer_ToFirst(from_remote, to_remote) ==
    merge_dicts(to_remote.rclone_sleeps, from_remote.rclone_sleeps)

\* line 101: the rclone_sleeps of RcloneSyncer(from_remote, to_remote), as a
\* dict from phrase to settings
NewSyncer(from_remote, to_remote) ==
    merge_dicts(from_remote.rclone_sleeps, to_remote.rclone_sleeps)

\* the 'rclone_sleeps' mappings a remote's configuration may hold
SleepsDicts ==
    UNION { [keys -> TriggerConfigs] : keys \in SUBSET {PhraseA, PhraseB} }

InitMerge ==
    /\ Idle
    /\ matching = <<>>
    /\ merging \in
          { [from_remote |-> [rclone_sleeps |-> f],
             to_remote |-> [rclone_sleeps |-> t],
             built |-> None] : f \in SleepsDicts, t \in SleepsDicts }

\* RcloneSyncer(from_remote, to_remote)
Construct ==
    /\ merging.built = None
    /\ merging' =
          [merging EXCEPT
              !.built = Some(NewSyncer(merging.from_remote, merging.to_remote))]
    /\ UNCHANGED <<rclone_sleeps, trigger_tracks, delayed_check,
                   delayed_trigger, now, last, fired_at, solo_all, solo_ran,
                   matching>>

NextMerge == Construct

SpecMerge == InitMerge /\ [][NextMerge]_vars

----------------------------------------------------------------------------
(* Reading the most recent call off the history *)

Called == last.reads # <<>>
Triggers == 1..Len(rclone_sleeps)
TextOf(i) == rclone_sleeps[i].text
ConfigOf(i) == rclone_sleeps[i].config

\* the call's loop ran the i-th trigger / its text held the i-th phrase
RanFor(i) == Called /\ Ran(last.at, i)
Hit(i) == TextOf(i) \in last.hit
\* the call returned True at the i-th trigger
FiredFor(i) == Called /\ last.ret /\ last.at = i

\* before the call: the entry had a window, and the window was over at the
\* time the call looked at it
HadWindow(i) ==
    /\ TextOf(i) \in DOMAIN last.pre
    /\ last.pre[TextOf(i)].expires # Unset
WindowOver(i) ==
    /\ HadWindow(i)
    /\ last.reads[2 * i - 1] >= last.pre[TextOf(i)].expires[1]
WindowOpen(i) ==
    /\ HadWindow(i)
    /\ last.reads[2 * i - 1] < last.pre[TextOf(i)].expires[1]

\* the number this call's occurrence has in the trigger's window
Occurrence(i) ==
    IF WindowOpen(i) THEN last.pre[TextOf(i)].count + 1 ELSE 1

FreshTrack(i) ==
    [count |-> 1, expires |-> <<last.reads[2 * i] + ConfigOf(i).timeout>>]

----------------------------------------------------------------------------
(* Claims *)

\* C1: for a trigger with count = N, the N-th matching call inside the window
\* opened by the first one returns True for it, and none of the N-1 before does.
C1_FiresOnNthNotBefore ==
    \A i \in Triggers :
        (RanFor(i) /\ Hit(i) /\ ConfigOf(i).count >= 1) =>
            /\ Occurrence(i) = ConfigOf(i).count => FiredFor(i)
            /\ Occurrence(i) < ConfigOf(i).count => ~FiredFor(i)

\* C2: a trigger with count = 1 and no tracked state fires on the first call
\* whose text holds its phrase.
C2_CountOneFiresOnFirst ==
    \A i \in Triggers :
        (RanFor(i) /\ Hit(i) /\ ConfigOf(i).count = 1
           /\ TextOf(i) \notin DOMAIN last.pre) => FiredFor(i)

\* C3: a matching call that finds no active state (no entry, count 0, or a
\* window it has just reset) leaves count 1 and expires = now + timeout and
\* does not fire for that trigger, whatever its configured count.
C3_FirstOccurrenceStartsWindow ==
    \A i \in Triggers :
        (RanFor(i) /\ Hit(i)
           /\ (\/ TextOf(i) \notin DOMAIN last.pre
               \/ last.pre[TextOf(i)].count = 0
               \/ WindowOver(i))) =>
            /\ TextOf(i) \in DOMAIN trigger_tracks
            /\ trigger_tracks[TextOf(i)] = FreshTrack(i)
            /\ ~FiredFor(i)

C3_Witness ==
    \E i \in Triggers :
        /\ RanFor(i) /\ Hit(i)
        /\ TextOf(i) \notin DOMAIN last.pre
        /\ ConfigOf(i).count <= 1
        /\ ConfigOf(i).timeout > 0
        /\ trigger_tracks[TextOf(i)] = FreshTrack(i)

\* C4: for a trigger with count = N, a matching call made at or after the
\* expiry of a window holding N-1 occurrences does not fire and leaves count 1
\* with a new expires = now + timeout.
C4_ExpiredWindowRestartsAtOne ==
    \A i \in Triggers :
        (RanFor(i) /\ Hit(i) /\ WindowOver(i)
           /\ last.pre[TextOf(i)].count >= 1
           /\ last.pre[TextOf(i)].count = ConfigOf(i).count - 1) =>
            /\ ~FiredFor(i)
            /\ trigger_tracks[TextOf(i)].count = 1
            /\ trigger_tracks[TextOf(i)].expires =
                   <<last.reads[2 * i] + ConfigOf(i).timeout>>

C4_Witness ==
    \E i \in Triggers :
        /\ RanFor(i) /\ Hit(i) /\ WindowOver(i)
        /\ ConfigOf(i).count >= 2
        /\ last.pre[TextOf(i)].count = ConfigOf(i).count - 1
        /\ last.reads[2 * i - 1] = last.pre[TextOf(i)].expires[1]
        /\ trigger_tracks[TextOf(i)].count = 1

\* C5: in every entry of trigger_tracks, count is 0 exactly when expires is ''.
C5_CountZeroIffUnset ==
    \A k \in DOMAIN trigger_tracks :
        trigger_tracks[k].count = 0 <=> trigger_tracks[k].expires = Unset

C5_Witness ==
    \E j, k \in DOMAIN trigger_tracks :
        /\ trigger_tracks[j].count = 0
        /\ trigger_tracks[j].expires = Unset
        /\ trigger_tracks[k].count >= 2
        /\ trigger_tracks[k].expires # Unset

\* C6 as claimed: a call whose text holds no configured phrase leaves every
\* entry of trigger_tracks as it was and returns False.
C6_NoMatchChangesNothing ==
    (Called /\ last.hit = {}) =>
        /\ ~last.ret
        /\ trigger_tracks = last.pre

\* C6 amended: a call whose text holds no configured phrase returns False and
\* changes only the entries whose window is over, which it resets to count 0
\* with expires unset.
C6_NoMatchOnlyExpires ==
    (Called /\ last.hit = {}) =>
        /\ ~last.ret
        /\ DOMAIN trigger_tracks = DOMAIN last.pre
        /\ \A i \in Triggers :
              TextOf(i) \in DOMAIN last.pre =>
                  trigger_tracks[TextOf(i)] =
                      IF WindowOver(i)
                      THEN [count |-> 0, expires |-> <<>>]
                      ELSE last.pre[TextOf(i)]

C6_Witness ==
    /\ Called /\ last.hit = {}
    /\ \E i, j \in Triggers :
          /\ WindowOver(i)
          /\ last.pre[TextOf(i)].count >= 1
          /\ trigger_tracks[TextOf(i)].count = 0
          /\ WindowOpen(j)
          /\ trigger_tracks[TextOf(j)] = last.pre[TextOf(j)]

\* the trigger fired in its most recent matching call, and its cooldown
\* (sleep) was over when this call looked at it
CooldownOver(i) ==
    /\ last.pre_fired # <<>>
    /\ last.pre_fired[TextOf(i)] # None
    /\ last.reads[2 * i - 1] >=
           last.pre_fired[TextOf(i)][1] + ConfigOf(i).sleep

\* a call that fires leaves the trigger counted, not reset
FiringKeepsState ==
    \A i \in Triggers :
        FiredFor(i) =>
            /\ trigger_tracks[TextOf(i)].count >= ConfigOf(i).count
            /\ trigger_tracks[TextOf(i)].count = last.pre[TextOf(i)].count + 1
            /\ trigger_tracks[TextOf(i)].expires = last.pre[TextOf(i)].expires

\* C7 as claimed: firing does not reset the trigger's state, and the next
\* matching call made once the cooldown is over fires again.
C7_RefiresAfterCooldown ==
    /\ FiringKeepsState
    /\ \A i \in Triggers :
          (RanFor(i) /\ Hit(i) /\ CooldownOver(i)) => FiredFor(i)

\* C7 amended: firing does not reset the trigger's state, and the next
\* matching call made once the cooldown is over fires again if the trigger's
\* window is still open at that call; if the window is over, the call resets
\* the state, counts as a first occurrence and does not fire.
C7_RefiresWhileWindowOpen ==
    /\ FiringKeepsState
    /\ \A i \in Triggers :
          (RanFor(i) /\ Hit(i) /\ CooldownOver(i)) =>
              /\ WindowOpen(i) => FiredFor(i)
              /\ ~WindowOpen(i) =>
                    /\ ~FiredFor(i)
                    /\ trigger_tracks[TextOf(i)] = FreshTrack(i)

C7_Witness ==
    \E i \in Triggers :
        /\ RanFor(i) /\ Hit(i) /\ CooldownOver(i)
        /\ ConfigOf(i).sleep > 0
        /\ WindowOpen(i)
        /\ FiredFor(i)
        /\ trigger_tracks[TextOf(i)].count > ConfigOf(i).count

\* the entry of one trigger, as a dict of its own
Own(tracks, k) == [x \in (DOMAIN tracks) \cap {k} |-> tracks[x]]

\* C8 as claimed: a trigger's state and whether it fired are those of a syncer
\* configured with that trigger alone and given the same calls.
C8_SameAsAlone ==
    \A i \in Triggers :
        /\ Own(trigger_tracks, TextOf(i)) =
               solo_all[TextOf(i)].self.trigger_tracks
        /\ FiredFor(i) <=> solo_all[TextOf(i)].ret

\* C8 amended: a trigger's state and whether it fired are those of a syncer
\* configured with that trigger alone and given the calls that did not return
\* at an earlier trigger; a call that returns at an earlier trigger leaves the
\* trigger's state as it was.
C8_SameAsAloneWhenRan ==
    \A i \in Triggers :
        /\ Own(trigger_tracks, TextOf(i)) =
               solo_ran[TextOf(i)].self.trigger_tracks
        /\ FiredFor(i) <=> solo_ran[TextOf(i)].ret
        /\ (Called /\ ~RanFor(i)) =>
               Own(trigger_tracks, TextOf(i)) = Own(last.pre, TextOf(i))

C8_Witness ==
    \E i, j \in Triggers :
        /\ i # j
        /\ FiredFor(i) /\ solo_ran[TextOf(i)].ret
        /\ Hit(j) /\ RanFor(j)
        /\ TextOf(j) \in DOMAIN trigger_tracks
        /\ trigger_tracks[TextOf(j)].count >= 2
        /\ trigger_tracks[TextOf(j)].expires # trigger_tracks[TextOf(i)].expires
        /\ Own(trigger_tracks, TextOf(j)) =
               solo_ran[TextOf(j)].self.trigger_tracks

\* C9: when a call returns True, delayed_trigger is the phrase whose count
\* reached its limit in this call and delayed_check is that phrase's sleep.
C9_AbortDataOfFiringTrigger ==
    (Called /\ last.ret) =>
        \E i \in Triggers :
            /\ last.at = i
            /\ Hit(i)
            /\ trigger_tracks[TextOf(i)].count = last.pre[TextOf(i)].count + 1
            /\ trigger_tracks[TextOf(i)].count >= ConfigOf(i).count
            /\ delayed_trigger = <<TextOf(i)>>
            /\ delayed_check = ConfigOf(i).sleep

C9_Witness ==
    /\ Called /\ last.ret /\ last.at = 2
    /\ Hit(1)
    /\ ConfigOf(1).sleep # ConfigOf(2).sleep
    /\ delayed_trigger = <<TextOf(2)>>
    /\ delayed_check = ConfigOf(2).sleep

\* C10: no sync_logic call runs with a trigger whose count or timeout is not
\* positive: such a configuration is rejected at construction.
C10_NoCallWithBadConfig ==
    Called =>
        \A i \in Triggers :
            ConfigOf(i).count > 0 /\ ConfigOf(i).timeout > 0

\* two characters are the same letter, whatever their case
SameLetter(c, d) ==
    \/ c = d
    \/ {c, d} \in { {"a", "A"}, {"b", "B"} }

\* the phrase p stands in the text d right after offset off, case aside
StandsAt(p, d, off) ==
    \A j \in 1..Len(p) : SameLetter(d[off + j], p[j])

\* C11: the text counts as an occurrence of the phrase exactly when the
\* phrase stands somewhere in the text as a contiguous run of characters,
\* letter case aside.
C11_CaseInsensitiveSubstring ==
    (matching # <<>> /\ matching.found # None) =>
        (matching.found[1] <=>
            \E off \in 0..(Len(matching.data) - Len(matching.trigger_text)) :
                StandsAt(matching.trigger_text, matching.data, off))

C11_Witness ==
    /\ matching # <<>>
    /\ matching.found = <<TRUE>>
    /\ Len(matching.trigger_text) = 2
    /\ Len(matching.data) = 3
    /\ matching.trigger_text[1] = "A"
    /\ matching.data[2] = "a"
    /\ StandsAt(matching.trigger_text, matching.data, 1)
    /\ ~StandsAt(matching.trigger_text, matching.data, 0)

\* C12: the syncer's trigger configuration holds every phrase of the source
\* and of the destination mapping; a phrase of both has the destination's
\* settings, a phrase of one has that one's.
C12_DestinationWins ==
    (merging # <<>> /\ merging.built # None) =>
        LET src == merging.from_remote.rclone_sleeps
            dst == merging.to_remote.rclone_sleeps
            got == merging.built[1]
        IN
          /\ DOMAIN got = (DOMAIN src) \cup (DOMAIN dst)
          /\ \A k \in DOMAIN dst : got[k] = dst[k]
          /\ \A k \in (DOMAIN src) \ (DOMAIN dst) : got[k] = src[k]

C12_Witness ==
    /\ merging # <<>>
    /\ merging.built # None
    /\ PhraseA \in DOMAIN merging.from_remote.rclone_sleeps
    /\ PhraseA \in DOMAIN merging.to_remote.rclone_sleeps
    /\ merging.from_remote.rclone_sleeps[PhraseA].count = 2
    /\ merging.to_remote.rclone_sleeps[PhraseA].count = 3
    /\ merging.built[1][PhraseA].count = 3
    /\ PhraseB \in DOMAIN merging.from_remote.rclone_sleeps
    /\ PhraseB \notin DOMAIN merging.to_remote.rclone_sleeps

\* C13: when a call fires at a trigger, every trigger later in the iteration
\* order keeps its state: no count is added although the text holds its
\* phrase, no reset is made although its window is over.
C13_LaterTriggersUntouched ==
    \A i \in Triggers :
        FiredFor(i) =>
            \A j \in Triggers :
                j > i => Own(trigger_tracks, TextOf(j)) = Own(last.pre, TextOf(j))

C13_Witness ==
    /\ FiredFor(1)
    /\ Hit(2)
    /\ WindowOver(2)
    /\ last.pre[TextOf(2)].count >= 1
    /\ trigger_tracks[TextOf(2)] = last.pre[TextOf(2)]

\* C14: a call that reaches a trigger whose expires is set and has been
\* reached (now >= expires, equality included) resets it before the match
\* test: without a match the state is count 0 / unset, with a match it is a
\* new window at count 1 and the call does not fire for it.
C14_LazyExpiryInclusive ==
    \A i \in Triggers :
        (RanFor(i) /\ WindowOver(i)) =>
            IF Hit(i)
            THEN /\ trigger_tracks[TextOf(i)] = FreshTrack(i)
                 /\ ~FiredFor(i)
            ELSE trigger_tracks[TextOf(i)] = [count |-> 0, expires |-> <<>>]

C14_Witness ==
    \E i \in Triggers :
        /\ RanFor(i) /\ Hit(i) /\ WindowOver(i)
        /\ last.reads[2 * i - 1] = last.pre[TextOf(i)].expires[1]
        /\ last.pre[TextOf(i)].count >= ConfigOf(i).count
        /\ last.pre[TextOf(i)].count >= 2
        /\ trigger_tracks[TextOf(i)].count = 1

\* C15: a call returns True only at a trigger whose phrase the text holds,
\* whose window is still open (now < expires) and whose count, just
\* incremented, has reached its configured count.
C15_FiresOnlyInOpenWindow ==
    /\ (Called /\ last.ret) => \E i \in Triggers : FiredFor(i)
    /\ \A i \in Triggers :
          FiredFor(i) =>
              /\ Hit(i)
              /\ WindowOpen(i)
              /\ last.pre[TextOf(i)].count >= 1
              /\ trigger_tracks[TextOf(i)].count = last.pre[TextOf(i)].count + 1
              /\ trigger_tracks[TextOf(i)].count >= ConfigOf(i).count

C15_Witness ==
    \E i \in Triggers :
        /\ FiredFor(i)
        /\ trigger_tracks[TextOf(i)].count = ConfigOf(i).count
        /\ ConfigOf(i).count >= 2
        /\ last.reads[2 * i - 1] = last.pre[TextOf(i)].expires[1] - 1

\* the expires of a trigger in a dict of tracks, unset when it has no entry
ExpiresIn(tracks, k) ==
    IF k \in DOMAIN tracks THEN tracks[k].expires ELSE Unset

\* C16: a call changes a trigger's expires only by recording a first
\* occurrence (to now + timeout) or by clearing it on expiry; a matching call
\* inside an open window adds one to the count and leaves expires as it was.
C16_WindowNeverExtended ==
    Called =>
        \A i \in Triggers :
            LET before == ExpiresIn(last.pre, TextOf(i))
                after == ExpiresIn(trigger_tracks, TextOf(i))
            IN
              /\ \/ after = before
                 \/ /\ RanFor(i) /\ Hit(i)
                    /\ before = Unset \/ WindowOver(i)
                    /\ after = <<last.reads[2 * i] + ConfigOf(i).timeout>>
                 \/ /\ RanFor(i) /\ ~Hit(i) /\ WindowOver(i)
                    /\ after = Unset
              /\ (RanFor(i) /\ Hit(i) /\ WindowOpen(i)) =>
                    /\ after = before
                    /\ trigger_tracks[TextOf(i)].count =
                           last.pre[TextOf(i)].count + 1

C16_Witness ==
    \E i \in Triggers :
        /\ RanFor(i) /\ Hit(i) /\ WindowOpen(i)
        /\ last.reads[2 * i - 1] >
               last.pre[TextOf(i)].expires[1] - ConfigOf(i).timeout
        /\ trigger_tracks[TextOf(i)].expires = last.pre[TextOf(i)].expires
        /\ trigger_tracks[TextOf(i)].count = last.pre[TextOf(i)].count + 1

\* C17: delayed_check and delayed_trigger start as 0 and None, and a step
\* whose call returns False leaves both as they were.
C17_FalseKeepsAbortData ==
    /\ delayed_check = 0 /\ delayed_trigger = None
    /\ [][(~last'.ret) =>
             /\ delayed_check' = delayed_check
             /\ delayed_trigger' = delayed_trigger]_vars

C17_Witness ==
    /\ Called /\ ~last.ret
    /\ \E i \in Triggers :
          /\ delayed_trigger = <<TextOf(i)>>
          /\ delayed_check = ConfigOf(i).sleep
          /\ RanFor(i) /\ WindowOver(i)
          /\ last.pre[TextOf(i)].count >= ConfigOf(i).count
          /\ trigger_tracks[TextOf(i)].count = 0

====
